---------------------------- MODULE Spec2Model ----------------------------
(***************************************************************************)
(* OpenWebUIClient (src/src/index.ts): the constructor, the private        *)
(* request executor, getModels, uploadFile and the thin endpoint callers,  *)
(* with the transport (fetch, AbortSignal.timeout, Response.text/json) as   *)
(* the environment.                                                         *)
(*                                                                         *)
(* JavaScript values are tagged records.  A JavaScript string is a finite  *)
(* sequence of tokens; the token "/" is the slash character and every      *)
(* other token is a non-empty run of characters without a slash.           *)
(***************************************************************************)
EXTENDS Integers, Sequences, FiniteSets, TLC

VARIABLES config, client, ctorError, calls

vars == <<config, client, ctorError, calls>>

---------------------------------------------------------------------------
(* Bounds of the model *)

\* longest url (in tokens) handed to the constructor
MaxUrlLen == 2

\* number of call slots of the concurrent specification
MaxInFlight == 2

---------------------------------------------------------------------------
(* JavaScript values *)

Undefined == [tag |-> "undefined"]
Null == [tag |-> "null"]
Str(s) == [tag |-> "string", val |-> s]
Num(n) == [tag |-> "number", val |-> n]
Bool(b) == [tag |-> "boolean", val |-> b]
Arr(items) == [tag |-> "array", items |-> items]
Obj(props) == [tag |-> "object", props |-> props]
\* a File or Blob instance
Blob == [tag |-> "Blob"]
\* an object that refers to itself, which JSON.stringify rejects
Cyclic == [tag |-> "cyclic"]

\* new Error(message); message is the template with its interpolated values
Error(name, message) == [tag |-> "Error", name |-> name, message |-> message]

\* ToBoolean, as used by !x, x && y and x || y
Truthy(v) ==
    CASE v.tag = "undefined" -> FALSE
      [] v.tag = "null" -> FALSE
      [] v.tag = "string" -> v.val # <<>>
      [] v.tag = "number" -> v.val # 0
      [] v.tag = "boolean" -> v.val
      [] OTHER -> TRUE

\* a || b in the place of a ?? b
OrElse(a, b) == IF Truthy(a) THEN a ELSE b

\* a ?? b
Nullish(a, b) == IF a.tag \in {"undefined", "null"} THEN b ELSE a

\* s.replace(/\/+$/, ''): every slash at the end is removed
StripTrailingSlashes(s) ==
    LET k == CHOOSE k \in 0..Len(s) :
                 /\ k = 0 \/ s[k] # "/"
                 /\ \A j \in (k + 1)..Len(s) : s[j] = "/"
    IN  SubSeq(s, 1, k)

\* s.replace(/\/$/, ''): the regular expression matches one slash at the end
StripOneSlash(s) ==
    IF Len(s) > 0 /\ s[Len(s)] = "/" THEN SubSeq(s, 1, Len(s) - 1) ELSE s

---------------------------------------------------------------------------
(* The constructor *)

DefaultTimeout == 30000

NoConfig == [tag |-> "none"]
NoClient == [tag |-> "none"]
NoError == [tag |-> "none"]

\* the constructor without the check of config.apiKey
AcceptEmptyKey(cfg) ==
    IF ~Truthy(cfg.url)
    THEN [threw |-> TRUE, error |-> Error("Error", [fmt |-> "URL is required"])]
    ELSE [threw |-> FALSE,
          self |-> [tag |-> "OpenWebUIClient",
                    url |-> StripOneSlash(cfg.url.val),
                    apiKey |-> IF cfg.apiKey.tag = "string" THEN cfg.apiKey.val ELSE <<>>,
                    timeout |-> Nullish(cfg.timeout, Num(DefaultTimeout)).val]]

\* constructor(config): either throws or yields the three readonly fields
constructor(cfg) ==
    IF ~Truthy(cfg.url)
    THEN [threw |-> TRUE, error |-> Error("Error", [fmt |-> "URL is required"])]
    ELSE IF ~Truthy(cfg.apiKey)
    THEN [threw |-> TRUE, error |-> Error("Error", [fmt |-> "API key is required"])]
    ELSE [threw |-> FALSE,
          self |-> [tag |-> "OpenWebUIClient",
                    url |-> StripOneSlash(cfg.url.val),
                    apiKey |-> cfg.apiKey.val,
                    timeout |-> Nullish(cfg.timeout, Num(DefaultTimeout)).val]]

---------------------------------------------------------------------------
(* Strings, headers and JSON text *)

\* s.includes(tok) for a token that is not split across tokens of s
Includes(s, tok) == \E i \in 1..Len(s) : s[i] = tok

\* {...extra, ...defaults}: the defaults replace the caller's keys
DefaultsWin(defaults, extra) == defaults @@ extra

\* {...defaults, ...extra}: a key of extra replaces the same key of defaults
Spread(defaults, extra) == extra @@ defaults

NoHeaders == <<>>

\* the own enumerable properties that {...options.headers} copies
HeaderProps(h) == IF h.tag = "object" THEN h.props ELSE NoHeaders

Model1 == Obj([id |-> Str(<<"m1">>)])
Model2 == Obj([id |-> Str(<<"m2">>)])
ChatPayload == Obj([model |-> Str(<<"m1">>), files |-> Arr(<<Obj([id |-> Str(<<"f1">>)])>>)])
UploadedFile1 == Obj([id |-> Str(<<"f1">>)])
GeneratePayload == Obj([model |-> Str(<<"llama3">>), prompt |-> Str(<<"hi">>)])
EmbedPayload == Obj([model |-> Str(<<"llama3">>), input |-> Arr(<<Str(<<"a">>), Str(<<"b">>)>>)])
\* { file_id: fileId }
FileIdBody(fileId) == Obj([file_id |-> Str(fileId)])

TxtModels12 == <<"[{\"id\":\"m1\"},{\"id\":\"m2\"}]">>
TxtModels21 == <<"[{\"id\":\"m2\"},{\"id\":\"m1\"}]">>
TxtDataModels12 == <<"{\"data\":[{\"id\":\"m1\"},{\"id\":\"m2\"}]}">>
TxtDataModels21 == <<"{\"data\":[{\"id\":\"m2\"},{\"id\":\"m1\"}]}">>
TxtEmptyArray == <<"[]">>
TxtDataEmptyArray == <<"{\"data\":[]}">>
TxtUnexpected == <<"{\"unexpected\":\"format\"}">>
TxtDataString == <<"{\"data\":\"m1\"}">>
TxtDataNull == <<"{\"data\":null}">>
TxtNull == <<"null">>
TxtFile == <<"{\"id\":\"f1\"}">>
TxtChatPayload == <<"{\"model\":\"m1\",\"files\":[{\"id\":\"f1\"}]}">>
TxtGeneratePayload == <<"{\"model\":\"llama3\",\"prompt\":\"hi\"}">>
TxtEmbedPayload == <<"{\"model\":\"llama3\",\"input\":[\"a\",\"b\"]}">>
TxtFileIdBody == <<"{\"file_id\":\"f1\"}">>
TxtUnauthorized == <<"Unauthorized">>
TxtEmpty == <<>>

SyntaxError == Error("SyntaxError", [fmt |-> "Unexpected token in JSON"])

\* JSON.parse on the texts of the model: the decoded value, or a SyntaxError
JSONparse(text) ==
    CASE text = TxtModels12 -> [threw |-> FALSE, value |-> Arr(<<Model1, Model2>>)]
      [] text = TxtModels21 -> [threw |-> FALSE, value |-> Arr(<<Model2, Model1>>)]
      [] text = TxtDataModels12 ->
            [threw |-> FALSE, value |-> Obj([data |-> Arr(<<Model1, Model2>>)])]
      [] text = TxtDataModels21 ->
            [threw |-> FALSE, value |-> Obj([data |-> Arr(<<Model2, Model1>>)])]
      [] text = TxtEmptyArray -> [threw |-> FALSE, value |-> Arr(<<>>)]
      [] text = TxtDataEmptyArray -> [threw |-> FALSE, value |-> Obj([data |-> Arr(<<>>)])]
      [] text = TxtUnexpected ->
            [threw |-> FALSE, value |-> Obj([unexpected |-> Str(<<"format">>)])]
      [] text = TxtDataString -> [threw |-> FALSE, value |-> Obj([data |-> Str(<<"m1">>)])]
      [] text = TxtDataNull -> [threw |-> FALSE, value |-> Obj([data |-> Null])]
      [] text = TxtNull -> [threw |-> FALSE, value |-> Null]
      [] text = TxtFile -> [threw |-> FALSE, value |-> UploadedFile1]
      [] text = TxtChatPayload -> [threw |-> FALSE, value |-> ChatPayload]
      [] text = TxtGeneratePayload -> [threw |-> FALSE, value |-> GeneratePayload]
      [] text = TxtEmbedPayload -> [threw |-> FALSE, value |-> EmbedPayload]
      [] text = TxtFileIdBody -> [threw |-> FALSE, value |-> FileIdBody(<<"f1">>)]
      [] OTHER -> [threw |-> TRUE, error |-> SyntaxError]

\* JSON.stringify on the payloads of the model: the text, or a TypeError
JSONstringify(v) ==
    CASE v = ChatPayload -> [threw |-> FALSE, text |-> TxtChatPayload]
      [] v = UploadedFile1 -> [threw |-> FALSE, text |-> TxtFile]
      [] v = GeneratePayload -> [threw |-> FALSE, text |-> TxtGeneratePayload]
      [] v = EmbedPayload -> [threw |-> FALSE, text |-> TxtEmbedPayload]
      [] v = FileIdBody(<<"f1">>) -> [threw |-> FALSE, text |-> TxtFileIdBody]
      [] v.tag = "cyclic" ->
            [threw |-> TRUE,
             error |-> Error("TypeError", [fmt |-> "Converting circular structure to JSON"])]
      [] v = Obj(<<>>) -> [threw |-> FALSE, text |-> <<"{}">>]
      [] v.tag = "null" -> [threw |-> FALSE, text |-> TxtNull]
      [] v.tag = "number" /\ v.val = 0 -> [threw |-> FALSE, text |-> <<"0">>]
      [] v.tag = "number" /\ v.val = 1 -> [threw |-> FALSE, text |-> <<"1">>]
      [] v.tag = "boolean" -> [threw |-> FALSE, text |-> <<IF v.val THEN "true" ELSE "false">>]
      [] v.tag = "string" /\ v.val = <<>> -> [threw |-> FALSE, text |-> <<"\"\"">>]

---------------------------------------------------------------------------
(* The request executor, lines 63-109 *)

PathModels == <<"/", "api", "/", "models">>
PathChat == <<"/", "api", "/", "chat", "/", "completions">>
PathFiles == <<"/", "api", "/", "v1", "/", "files", "/">>
PathCustom == <<"/", "api", "/", "custom-endpoint">>
PathGenerate == <<"/", "ollama", "/", "api", "/", "generate">>
PathEmbed == <<"/", "ollama", "/", "api", "/", "embed">>
\* the list of the proxy asked for under the name of the list of /api
PathOllamaModels == <<"/", "ollama", "/", "api", "/", "models">>
PathTags == <<"/", "ollama", "/", "api", "/", "tags">>
\* `/api/v1/knowledge/${knowledgeId}/file/add`
PathKnowledge(knowledgeId) ==
    <<"/", "api", "/", "v1", "/", "knowledge", "/">> \o knowledgeId \o <<"/", "file", "/", "add">>

GET == <<"GET">>
POST == <<"POST">>

NoBody == Undefined

\* request that serializes options.body whatever the method is
InitBodyOnGet(self, endpoint, options) ==
    LET method == IF Truthy(options.method) THEN options.method.val ELSE GET
        str == JSONstringify(options.body)
    IN  IF Truthy(options.body) /\ str.threw
        THEN [threw |-> TRUE, armed |-> TRUE, error |-> str.error]
        ELSE [threw |-> FALSE,
              url |-> self.url \o endpoint,
              method |-> method,
              headers |-> Spread(("Authorization" :> (<<"Bearer ">> \o self.apiKey))
                                   @@ ("Content-Type" :> <<"application/json">>),
                                 HeaderProps(options.headers)),
              body |-> IF Truthy(options.body) THEN Str(str.text) ELSE NoBody,
              signal |-> self.timeout]

\* request that sends String(options.body) in the place of JSON.stringify
InitBodyToString(self, endpoint, options) ==
    LET method == IF Truthy(options.method) THEN options.method.val ELSE GET
    IN  [threw |-> FALSE,
         url |-> self.url \o endpoint,
         method |-> method,
         headers |-> Spread(("Authorization" :> (<<"Bearer ">> \o self.apiKey))
                              @@ ("Content-Type" :> <<"application/json">>),
                            HeaderProps(options.headers)),
         body |-> IF Truthy(options.body) /\ method # GET
                  THEN Str(<<"[object Object]">>) ELSE NoBody,
         signal |-> self.timeout]

\* request that catches the error of JSON.stringify and sends no body
InitDropsUnserializable(self, endpoint, options) ==
    LET method == IF Truthy(options.method) THEN options.method.val ELSE GET
        str == JSONstringify(options.body)
    IN  [threw |-> FALSE,
         url |-> self.url \o endpoint,
         method |-> method,
         headers |-> Spread(("Authorization" :> (<<"Bearer ">> \o self.apiKey))
                              @@ ("Content-Type" :> <<"application/json">>),
                            HeaderProps(options.headers)),
         body |-> IF Truthy(options.body) /\ method # GET /\ ~str.threw
                  THEN Str(str.text) ELSE NoBody,
         signal |-> self.timeout]

\* request that serializes every body but undefined
InitBodyIfDefined(self, endpoint, options) ==
    LET method == IF Truthy(options.method) THEN options.method.val ELSE GET
        given == options.body # Undefined /\ method # GET
        str == JSONstringify(options.body)
    IN  IF given /\ str.threw
        THEN [threw |-> TRUE, armed |-> TRUE, error |-> str.error]
        ELSE [threw |-> FALSE,
              url |-> self.url \o endpoint,
              method |-> method,
              headers |-> Spread(("Authorization" :> (<<"Bearer ">> \o self.apiKey))
                                   @@ ("Content-Type" :> <<"application/json">>),
                                 HeaderProps(options.headers)),
              body |-> IF given THEN Str(str.text) ELSE NoBody,
              signal |-> self.timeout]

\* lines 67-84: the url, the method, the headers and the fetch options
requestInit(self, endpoint, options) ==
    LET url == self.url \o endpoint
        method == IF Truthy(options.method) THEN options.method.val ELSE GET
        headers == Spread(("Authorization" :> (<<"Bearer ">> \o self.apiKey))
                            @@ ("Content-Type" :> <<"application/json">>),
                          HeaderProps(options.headers))
        str == JSONstringify(options.body)
    IN  IF Truthy(options.body) /\ method # GET /\ str.threw
        THEN [threw |-> TRUE, armed |-> TRUE, error |-> str.error]
        ELSE [threw |-> FALSE,
              url |-> url,
              method |-> method,
              headers |-> headers,
              body |-> IF Truthy(options.body) /\ method # GET
                       THEN Str(str.text) ELSE NoBody,
              signal |-> self.timeout]

TimeoutMessage(ms) == [fmt |-> "Request timeout after ${this.timeout}ms", timeout |-> ms]
HttpMessage(status, errorText) ==
    [fmt |-> "HTTP ${response.status}: ${errorText}", status |-> status, errorText |-> errorText]

IsError(e) == e.tag = "Error"

\* the catch block that wraps a failure of the transport in a new Error
CatchWraps(self, error) ==
    IF IsError(error)
    THEN IF error.name = "TimeoutError" \/ error.name = "AbortError"
         THEN Error("Error", TimeoutMessage(self.timeout))
         ELSE Error("Error", [fmt |-> "Request failed: ${error.message}",
                              cause |-> error.message])
    ELSE Error("Error", [fmt |-> "Unknown error occurred"])

\* the catch block that knows the name TimeoutError only
CatchTimeoutErrorOnly(self, error) ==
    IF IsError(error)
    THEN IF error.name = "TimeoutError"
         THEN Error("Error", TimeoutMessage(self.timeout))
         ELSE error
    ELSE Error("Error", [fmt |-> "Unknown error occurred"])

\* lines 100-108: the catch block of request
requestCatch(self, error) ==
    IF IsError(error)
    THEN IF error.name = "TimeoutError" \/ error.name = "AbortError"
         THEN Error("Error", TimeoutMessage(self.timeout))
         ELSE error
    ELSE Error("Error", [fmt |-> "Unknown error occurred"])

\* the catch block that rethrows what is no Error as it is
CatchPassesValue(self, error) ==
    IF IsError(error)
    THEN IF error.name = "TimeoutError" \/ error.name = "AbortError"
         THEN Error("Error", TimeoutMessage(self.timeout))
         ELSE error
    ELSE error

\* the catch block that rethrows every Error as it is
CatchRethrows(self, error) ==
    IF IsError(error) THEN error
    ELSE Error("Error", [fmt |-> "Unknown error occurred"])

\* lines 181-189: the catch block of uploadFile
uploadCatch(self, error) ==
    IF IsError(error)
    THEN IF error.name = "TimeoutError" \/ error.name = "AbortError"
         THEN Error("Error", TimeoutMessage(self.timeout))
         ELSE error
    ELSE Error("Error", [fmt |-> "Unknown error occurred"])

\* response.ok
Ok(response) == response.status \in 200..299

\* the content-type decides before the status does
ContentTypeFirst(response) ==
    IF Truthy(response.contentType)
       /\ Includes(response.contentType.val, "application/json")
    THEN "json"
    ELSE "text"

\* request that decodes every successful body as JSON
AlwaysJson(response) == IF ~Ok(response) THEN "text" ELSE "json"

\* lines 89-99: the body method request invokes on a response
requestBodyMethod(response) ==
    IF ~Ok(response) THEN "text"
    ELSE IF Truthy(response.contentType)
            /\ Includes(response.contentType.val, "application/json")
         THEN "json"
         ELSE "text"

\* uploadFile that looks at the content-type as request does
UploadChecksContentType(response) ==
    IF ~Ok(response) THEN "text"
    ELSE IF Truthy(response.contentType)
            /\ Includes(response.contentType.val, "application/json")
         THEN "json"
         ELSE "text"

\* lines 176-180: the body method uploadFile invokes on a response
uploadBodyMethod(response) == IF ~Ok(response) THEN "text" ELSE "json"

Returned(v) == [kind |-> "returned", value |-> v]
Threw(e) == [kind |-> "threw", error |-> e]
NoOutcome == [kind |-> "none"]

\* what the body promise settles with: response.text() or response.json()
BodyRead(response, meth) ==
    IF meth = "text"
    THEN [threw |-> FALSE, value |-> Str(response.body)]
    ELSE JSONparse(response.body)

\* lines 89-99 after the body promise settled: request's result
requestSettle(self, response, meth) ==
    LET read == BodyRead(response, meth)
    IN  IF read.threw THEN Threw(requestCatch(self, read.error))
        ELSE IF ~Ok(response)
        THEN Threw(requestCatch(self,
                 Error("Error", HttpMessage(response.status, read.value.val))))
        ELSE Returned(read.value)

\* uploadFile with a message of its own for a non-success status
UploadFailedMessage(self, response, meth) ==
    LET read == BodyRead(response, meth)
    IN  IF read.threw THEN Threw(uploadCatch(self, read.error))
        ELSE IF ~Ok(response)
        THEN Threw(uploadCatch(self,
                 Error("Error", [fmt |-> "Upload failed: ${response.status}",
                                 status |-> response.status])))
        ELSE Returned(read.value)

\* lines 176-180 after the body promise settled: uploadFile's result
uploadSettle(self, response, meth) ==
    LET read == BodyRead(response, meth)
    IN  IF read.threw THEN Threw(uploadCatch(self, read.error))
        ELSE IF ~Ok(response)
        THEN Threw(uploadCatch(self,
                 Error("Error", HttpMessage(response.status, read.value.val))))
        ELSE Returned(read.value)

\* getModels that hands back the wrapper object in the place of its data
ReturnsWrapper(response) ==
    IF response.tag = "array" THEN Returned(response)
    ELSE IF Truthy(response) /\ response.tag = "object"
            /\ "data" \in DOMAIN response.props
            /\ response.props["data"].tag = "array"
    THEN Returned(response)
    ELSE Threw(Error("Error", [fmt |-> "Unexpected response format from /api/models"]))

\* getModels without Array.isArray(response.data)
AnyDataField(response) ==
    IF response.tag = "array" THEN Returned(response)
    ELSE IF Truthy(response) /\ response.tag = "object"
            /\ "data" \in DOMAIN response.props
    THEN Returned(response.props["data"])
    ELSE Threw(Error("Error", [fmt |-> "Unexpected response format from /api/models"]))

\* getModels that answers an unexpected shape with an empty list
EmptyOnUnexpected(response) ==
    IF response.tag = "array" THEN Returned(response)
    ELSE IF Truthy(response) /\ response.tag = "object"
            /\ "data" \in DOMAIN response.props
            /\ response.props["data"].tag = "array"
    THEN Returned(response.props["data"])
    ELSE Returned(Arr(<<>>))

\* lines 116-124: getModels on what request returned
getModelsNormalize(response) ==
    IF response.tag = "array" THEN Returned(response)
    ELSE IF Truthy(response) /\ response.tag = "object"
            /\ "data" \in DOMAIN response.props
            /\ response.props["data"].tag = "array"
    THEN Returned(response.props["data"])
    ELSE Threw(Error("Error", [fmt |-> "Unexpected response format from /api/models"]))

---------------------------------------------------------------------------
(* Calls of the public operations *)

NoInv == [op |-> "none"]
NoReq == [tag |-> "none"]
NoResp == [tag |-> "none"]

NoOptions == [method |-> Undefined, body |-> Undefined, headers |-> Undefined]

\* the public operations with their arguments
InvGetModels == [op |-> "getModels"]
InvChat(payload) == [op |-> "createChatCompletion", payload |-> payload]
InvCustom(endpoint, options) ==
    [op |-> "customRequest", endpoint |-> endpoint, options |-> options]
InvUpload(file) == [op |-> "uploadFile", file |-> file]
InvAddFile(knowledgeId, fileId) ==
    [op |-> "addFileToKnowledge", knowledgeId |-> knowledgeId, fileId |-> fileId]
InvOllamaGenerate(payload) == [op |-> "ollamaGenerate", payload |-> payload]
InvOllamaListModels == [op |-> "ollamaListModels"]
InvOllamaEmbed(payload) == [op |-> "ollamaEmbed", payload |-> payload]

\* the endpoint and options a request-based operation hands to request
requestArgs(inv) ==
    CASE inv.op = "getModels" -> [endpoint |-> PathModels, options |-> NoOptions]
      [] inv.op = "createChatCompletion" ->
            [endpoint |-> PathChat,
             options |-> [method |-> Str(POST), body |-> inv.payload, headers |-> Undefined]]
      [] inv.op = "addFileToKnowledge" ->
            [endpoint |-> PathKnowledge(inv.knowledgeId),
             options |-> [method |-> Str(POST), body |-> FileIdBody(inv.fileId),
                          headers |-> Undefined]]
      [] inv.op = "ollamaGenerate" ->
            [endpoint |-> PathGenerate,
             options |-> [method |-> Str(POST), body |-> inv.payload, headers |-> Undefined]]
      [] inv.op = "ollamaListModels" -> [endpoint |-> PathTags, options |-> NoOptions]
      [] inv.op = "ollamaEmbed" ->
            [endpoint |-> PathEmbed,
             options |-> [method |-> Str(POST), body |-> inv.payload, headers |-> Undefined]]
      [] inv.op = "customRequest" -> [endpoint |-> inv.endpoint, options |-> inv.options]

NotImplemented ==
    Error("Error",
        [fmt |-> "File path upload not yet implemented. Please use File or Blob objects."])

\* uploadFile whose headers lack Authorization
UploadWithoutAuthorization(self, file) ==
    IF file.tag = "Blob"
    THEN [threw |-> FALSE,
          url |-> self.url \o PathFiles,
          method |-> POST,
          headers |-> ("Accept" :> <<"application/json">>),
          body |-> [tag |-> "FormData", parts |-> <<[name |-> "file", value |-> file]>>],
          signal |-> self.timeout]
    ELSE [threw |-> TRUE, armed |-> FALSE, error |-> NotImplemented]

\* uploadFile with the Content-Type of request among its headers
UploadWithContentType(self, file) ==
    IF file.tag = "Blob"
    THEN [threw |-> FALSE,
          url |-> self.url \o PathFiles,
          method |-> POST,
          headers |-> ("Authorization" :> (<<"Bearer ">> \o self.apiKey))
                        @@ ("Accept" :> <<"application/json">>)
                        @@ ("Content-Type" :> <<"application/json">>),
          body |-> [tag |-> "FormData", parts |-> <<[name |-> "file", value |-> file]>>],
          signal |-> self.timeout]
    ELSE [threw |-> TRUE, armed |-> FALSE, error |-> NotImplemented]

\* uploadFile that appends whatever it is given
UploadAcceptsPath(self, file) ==
    [threw |-> FALSE,
     url |-> self.url \o PathFiles,
     method |-> POST,
     headers |-> ("Authorization" :> (<<"Bearer ">> \o self.apiKey))
                   @@ ("Accept" :> <<"application/json">>),
     body |-> [tag |-> "FormData", parts |-> <<[name |-> "file", value |-> file]>>],
     signal |-> self.timeout]

\* lines 150-172: uploadFile up to the call of fetch
uploadInit(self, file) ==
    IF file.tag = "Blob"
    THEN [threw |-> FALSE,
          url |-> self.url \o PathFiles,
          method |-> POST,
          headers |-> ("Authorization" :> (<<"Bearer ">> \o self.apiKey))
                        @@ ("Accept" :> <<"application/json">>),
          body |-> [tag |-> "FormData", parts |-> <<[name |-> "file", value |-> file]>>],
          signal |-> self.timeout]
    ELSE [threw |-> TRUE, armed |-> FALSE, error |-> NotImplemented]

\* the public methods of the class OpenWebUIClient
Methods ==
    {"getModels", "createChatCompletion", "uploadFile", "addFileToKnowledge",
     "ollamaGenerate", "ollamaListModels", "ollamaEmbed", "customRequest"}

\* client.name(...) for a name that is no property of the client
NotAFunction(name) ==
    Error("TypeError", [fmt |-> "client.${name} is not a function", name |-> name])

\* the operation's code up to its first await; a call of a name the class does
\* not define throws at the call
opInit(self, inv) ==
    IF inv.op \notin Methods
    THEN [threw |-> TRUE, armed |-> FALSE, error |-> NotAFunction(inv.op)]
    ELSE IF inv.op = "uploadFile" THEN uploadInit(self, inv.file)
    ELSE requestInit(self, requestArgs(inv).endpoint, requestArgs(inv).options)

opBodyMethod(inv, response) ==
    IF inv.op = "uploadFile" THEN uploadBodyMethod(response)
    ELSE requestBodyMethod(response)

opCatch(self, inv, error) ==
    IF inv.op = "uploadFile" THEN uploadCatch(self, error) ELSE requestCatch(self, error)

\* the operation's result once the body promise settled
opSettle(self, inv, response, meth) ==
    IF inv.op = "uploadFile" THEN uploadSettle(self, response, meth)
    ELSE LET r == requestSettle(self, response, meth)
         IN  IF inv.op = "getModels" /\ r.kind = "returned"
             THEN getModelsNormalize(r.value)
             ELSE r

Idle ==
    [pc |-> "idle", inv |-> NoInv, req |-> NoReq, fetches |-> 0, resp |-> NoResp,
     reads |-> <<>>, rejected |-> NoError, timer |-> "none", firedAt |-> "none",
     outcome |-> NoOutcome]

Pending == {"fetching", "text", "json"}

\* new OpenWebUIClient(cfg)
New(cfg) ==
    /\ config = NoConfig
    /\ config' = cfg
    /\ LET r == constructor(cfg)
       IN  IF r.threw
           THEN client' = NoClient /\ ctorError' = r.error
           ELSE client' = r.self /\ ctorError' = NoError
    /\ UNCHANGED calls

\* the operation assembles the url of the request in this.url
CallKeepsUrl(c, inv) ==
    /\ client # NoClient
    /\ calls[c].pc = "idle"
    /\ LET r == opInit(client, inv)
       IN  /\ calls' = [calls EXCEPT ![c] =
                  IF r.threw
                  THEN [@ EXCEPT !.pc = "done", !.inv = inv, !.outcome = Threw(r.error),
                                 !.timer = IF r.armed THEN "armed" ELSE "none"]
                  ELSE [@ EXCEPT !.pc = "fetching", !.inv = inv, !.req = r,
                                 !.fetches = @ + 1, !.timer = "armed"]]
           /\ client' = IF r.threw THEN client ELSE [client EXCEPT !.url = r.url]
    /\ UNCHANGED <<config, ctorError>>

\* a public operation is called: it runs up to fetch(url, fetchOptions), or throws
\* before it (request has created its timeout signal by then, uploadFile has not)
Call(c, inv) ==
    /\ client # NoClient
    /\ calls[c].pc = "idle"
    /\ LET r == opInit(client, inv)
       IN  calls' = [calls EXCEPT ![c] =
               IF r.threw
               THEN [@ EXCEPT !.pc = "done", !.inv = inv, !.outcome = Threw(r.error),
                              !.timer = IF r.armed THEN "armed" ELSE "none"]
               ELSE [@ EXCEPT !.pc = "fetching", !.inv = inv, !.req = r, !.fetches = @ + 1,
                              !.timer = "armed"]]
    /\ UNCHANGED <<config, client, ctorError>>

\* the code reads the text of every response first and decodes it afterwards
ReadsTextFirst(c, response) ==
    /\ calls[c].pc = "fetching"
    /\ LET meth == opBodyMethod(calls[c].inv, response)
       IN  calls' = [calls EXCEPT ![c] =
               [@ EXCEPT !.pc = meth, !.resp = response,
                         !.reads = IF meth = "json" THEN <<"text", "json">> ELSE <<"text">>]]
    /\ UNCHANGED <<config, client, ctorError>>

\* the promise of fetch resolves with a response; the code invokes a body method
FetchResolves(c, response) ==
    /\ calls[c].pc = "fetching"
    /\ LET meth == opBodyMethod(calls[c].inv, response)
       IN  calls' = [calls EXCEPT ![c] =
               [@ EXCEPT !.pc = meth, !.resp = response, !.reads = Append(@, meth)]]
    /\ UNCHANGED <<config, client, ctorError>>

\* the body promise settles: the text, the decoded value or json()'s SyntaxError
BodySettles(c) ==
    /\ calls[c].pc \in {"text", "json"}
    /\ calls' = [calls EXCEPT ![c] =
           [@ EXCEPT !.pc = "done",
                     !.outcome = opSettle(client, calls[c].inv, calls[c].resp, calls[c].pc)]]
    /\ UNCHANGED <<config, client, ctorError>>

\* a failure of the transport makes the operation call fetch a second time
TransportRetries(c, failure) ==
    /\ calls[c].pc \in Pending
    /\ calls' = [calls EXCEPT ![c] =
           IF calls[c].fetches < 2
           THEN [@ EXCEPT !.pc = "fetching", !.fetches = @ + 1]
           ELSE [@ EXCEPT !.pc = "done", !.rejected = failure,
                          !.outcome = Threw(opCatch(client, calls[c].inv, failure))]]
    /\ UNCHANGED <<config, client, ctorError>>

\* the pending promise (fetch or the body read) rejects with a failure of the
\* transport that is not a cancellation
TransportRejects(c, failure) ==
    /\ calls[c].pc \in Pending
    /\ calls' = [calls EXCEPT ![c] =
           [@ EXCEPT !.pc = "done", !.rejected = failure,
                     !.outcome = Threw(opCatch(client, calls[c].inv, failure))]]
    /\ UNCHANGED <<config, client, ctorError>>

\* one signal for the whole client: the timer of a call cancels every pending call
SharedSignalAborts(c, name) ==
    /\ calls[c].pc \in Pending
    /\ calls[c].timer = "armed"
    /\ calls' = [d \in DOMAIN calls |->
           IF calls[d].pc \in Pending
           THEN [calls[d] EXCEPT
                     !.pc = "done",
                     !.timer = IF d = c THEN "fired" ELSE @,
                     !.firedAt = IF d = c THEN calls[c].pc ELSE @,
                     !.rejected = Error(name, [fmt |-> "The operation was aborted"]),
                     !.outcome = Threw(opCatch(client, calls[d].inv,
                                   Error(name, [fmt |-> "The operation was aborted"])))]
           ELSE calls[d]]
    /\ UNCHANGED <<config, client, ctorError>>

\* the timer of AbortSignal.timeout(this.timeout) fires while the call is pending:
\* the pending promise rejects with a DOMException of the given name
TimerAborts(c, name) ==
    /\ calls[c].pc \in Pending
    /\ calls[c].timer = "armed"
    /\ calls' = [calls EXCEPT ![c] =
           [@ EXCEPT !.pc = "done", !.timer = "fired", !.firedAt = calls[c].pc,
                     !.rejected = Error(name, [fmt |-> "The operation was aborted"]),
                     !.outcome = Threw(opCatch(client, calls[c].inv,
                                   Error(name, [fmt |-> "The operation was aborted"])))]]
    /\ UNCHANGED <<config, client, ctorError>>

\* the timer fires after the call has completed
TimerLapses(c) ==
    /\ calls[c].pc = "done"
    /\ calls[c].timer = "armed"
    /\ calls' = [calls EXCEPT ![c] = [@ EXCEPT !.timer = "fired", !.firedAt = "done"]]
    /\ UNCHANGED <<config, client, ctorError>>

---------------------------------------------------------------------------
(* Inputs *)

Chars == {"h", "/"}

\* the strings of at most n tokens over Chars
Strings(n) == UNION {[1..k -> Chars] : k \in 0..n}

Urls == {Undefined} \cup {Str(s) : s \in Strings(MaxUrlLen)}
ApiKeys == {Undefined, Str(<<>>), Str(<<"k">>)}
Timeouts == {Undefined, Num(0), Num(5000), Num(60000)}

Configs == [url : Urls, apiKey : ApiKeys, timeout : Timeouts]

\* the configurations of the clients whose calls are followed to their end
CallConfigs ==
    {[url |-> Str(<<"h", "/">>), apiKey |-> Str(<<"k">>), timeout |-> t] :
        t \in {Undefined, Num(5000)}}

Statuses == {200, 401}
ContentTypes ==
    {Null, Str(<<"application/json">>), Str(<<"application/json", "; charset=utf-8">>),
     Str(<<"text/plain">>)}
Bodies ==
    {TxtModels12, TxtModels21, TxtDataModels12, TxtDataModels21, TxtEmptyArray,
     TxtDataEmptyArray, TxtUnexpected, TxtDataString, TxtDataNull, TxtNull, TxtFile,
     TxtUnauthorized, TxtEmpty}

Responses == [status : Statuses, contentType : ContentTypes, body : Bodies]

\* rejections of the transport other than a cancellation: an Error, and a value
\* that is no Error
TransportFailures ==
    {Error("TypeError", [fmt |-> "fetch failed"]), Str(<<"Unknown error">>)}

\* the names under which the transport reports the cancellation by the signal
AbortNames == {"TimeoutError", "AbortError"}

\* the headers a caller of customRequest supplies
CustomHeaders == Obj("Custom-Header" :> <<"custom-value">>)
OwnAuthorization == Obj(("Authorization" :> <<"Basic ", "u:p">>) @@ ("X-Trace" :> <<"1">>))
OwnContentType == Obj("Content-Type" :> <<"text/plain">>)

\* the bodies that options.body && ... takes for no body
FalsyBodies == {Null, Num(0), Bool(FALSE), Str(<<>>)}

\* the options of customRequest: the methods with the bodies, and the headers
CustomOptions ==
    [method : {Undefined, Str(GET), Str(POST), Str(<<"DELETE">>)},
     body : {Undefined, UploadedFile1, Cyclic} \cup FalsyBodies \cup {Num(1), Bool(TRUE)},
     headers : {Undefined}]
    \cup [method : {Undefined}, body : {Undefined},
          headers : {CustomHeaders, OwnAuthorization, OwnContentType}]

\* the calls of the example and of the quick start guide
DocumentedInvocations ==
    {[op |-> "healthCheck"], [op |-> "getUserInfo"], [op |-> "getChatHistory"],
     [op |-> "getFunctions"],
     [op |-> "createConversation", payload |-> Obj(<<>>)],
     [op |-> "getChat", chatId |-> <<"c1">>],
     [op |-> "updateChat", chatId |-> <<"c1">>, payload |-> Obj(<<>>)],
     [op |-> "deleteChat", chatId |-> <<"c1">>]}

Invocations ==
    DocumentedInvocations \cup
    {InvGetModels, InvChat(ChatPayload), InvChat(Cyclic), InvUpload(Blob),
     InvUpload([tag |-> "path", path |-> <<"/", "tmp", "/", "a.txt">>]),
     InvUpload(Str(<<"/", "tmp", "/", "a.txt">>)),
     InvAddFile(<<"k1">>, <<"f1">>), InvAddFile(<<"k2">>, <<"f1">>),
     InvOllamaGenerate(GeneratePayload),
     InvOllamaListModels, InvOllamaEmbed(EmbedPayload)}
    \cup {InvCustom(PathCustom, o) : o \in CustomOptions}

\* the operations a freshly constructed client is asked for
FirstInvocations == {InvGetModels, InvUpload(Blob), InvCustom(PathCustom, NoOptions)}

---------------------------------------------------------------------------
(* Specifications *)

\* the steps of call c
Step(c) ==
    \/ \E inv \in Invocations : Call(c, inv)
    \/ \E response \in Responses : FetchResolves(c, response)
    \/ BodySettles(c)
    \/ \E failure \in TransportFailures : TransportRejects(c, failure)
    \/ \E name \in AbortNames : TimerAborts(c, name)
    \/ TimerLapses(c)

Calls == 1..MaxInFlight

\* Spec: one client of CallConfigs, one call (slot 1) followed from its start to
\* its end on every input; the other slots stay idle
Init ==
    /\ config \in CallConfigs
    /\ client = constructor(config).self
    /\ ctorError = NoError
    /\ calls = [c \in Calls |-> Idle]

Next == Step(1)

Spec == Init /\ [][Next]_vars

\* CtorSpec: the constructor on every configuration, and the first request of the
\* client it yields
CtorInit ==
    /\ config = NoConfig
    /\ client = NoClient
    /\ ctorError = NoError
    /\ calls = [c \in Calls |-> Idle]

CtorNext ==
    \/ \E cfg \in Configs : New(cfg)
    \/ \E inv \in FirstInvocations : Call(1, inv)

CtorSpec == CtorInit /\ [][CtorNext]_vars

\* ConcSpec: one client, MaxInFlight calls in flight at once, interleaved in every
\* order, on the inputs that tell the outcomes apart
CoreInvocations == {InvGetModels, InvUpload(Blob)}

CoreResponses ==
    [status : Statuses, contentType : {Str(<<"application/json">>)},
     body : {TxtModels12, TxtUnauthorized}]

ConcStep(c) ==
    \/ \E inv \in CoreInvocations : Call(c, inv)
    \/ \E response \in CoreResponses : FetchResolves(c, response)
    \/ BodySettles(c)
    \/ \E failure \in TransportFailures : TransportRejects(c, failure)
    \/ \E name \in AbortNames : TimerAborts(c, name)
    \/ TimerLapses(c)

ConcNext == \E c \in Calls : ConcStep(c)

ConcSpec == Init /\ [][ConcNext]_vars

\* ClientSpec: a client from its construction, on every configuration, to the end
\* of its first call, on the inputs that lead to every kind of failure
ClientInvocations ==
    FirstInvocations
    \cup {InvUpload(Str(<<"/", "tmp", "/", "a.txt">>)), InvChat(Cyclic), InvChat(ChatPayload)}

ClientResponses ==
    [status : Statuses, contentType : {Str(<<"application/json">>)},
     body : {TxtModels12, TxtUnexpected, TxtUnauthorized}]

ClientNext ==
    \/ \E cfg \in Configs : New(cfg)
    \/ \E inv \in ClientInvocations : Call(1, inv)
    \/ \E response \in ClientResponses : FetchResolves(1, response)
    \/ BodySettles(1)
    \/ \E failure \in TransportFailures : TransportRejects(1, failure)
    \/ \E name \in AbortNames : TimerAborts(1, name)
    \/ TimerLapses(1)

ClientSpec == CtorInit /\ [][ClientNext]_vars

---------------------------------------------------------------------------
(* The constructor: C1 - C5 *)

Constructed == client # NoClient

EndsWithSlash(s) == Len(s) > 0 /\ s[Len(s)] = "/"

\* the stored base of the client constructed from cfg with another url
StoredBaseOf(cfg, url) == constructor([cfg EXCEPT !.url = Str(url)]).self.url

\* C1: a configuration whose url or apiKey is empty or missing makes the
\* constructor throw 'URL is required' (url) or 'API key is required' (apiKey);
\* no client exists and no request has been issued.
C1_ConfigurationError ==
    (config # NoConfig /\ (~Truthy(config.url) \/ ~Truthy(config.apiKey))) =>
        /\ client = NoClient
        /\ ctorError = Error("Error",
               [fmt |-> IF ~Truthy(config.url) THEN "URL is required"
                        ELSE "API key is required"])
        /\ \A c \in Calls : calls[c].pc = "idle" /\ calls[c].fetches = 0

C1_Witness ==
    /\ config # NoConfig
    /\ config.url = Str(<<"h">>)
    /\ config.apiKey = Str(<<>>)
    /\ ctorError = Error("Error", [fmt |-> "API key is required"])

\* C2: the stored base URL and the stored credential of every constructed
\* client are non-empty strings.
C2_StoredNonEmpty ==
    Constructed => client.url # <<>> /\ client.apiKey # <<>>

\* C3 as stated: every configuration with a non-empty url and apiKey yields a
\* client, one slash at the end of url is stripped, and url + "/" yields the
\* stored base that url yields.
C3_SlashIdempotent ==
    (config # NoConfig /\ Truthy(config.url) /\ Truthy(config.apiKey)) =>
        /\ Constructed
        /\ client.url = SubSeq(config.url.val, 1,
               Len(config.url.val) - (IF EndsWithSlash(config.url.val) THEN 1 ELSE 0))
        /\ StoredBaseOf(config, config.url.val \o <<"/">>) = client.url

\* C3 amended: every configuration with a non-empty url and apiKey yields a
\* client whose stored base is url without one slash at its end, if it has one;
\* for a url that does not end with a slash, url + "/" yields the stored base
\* that url yields.
C3_StripsOneSlash ==
    (config # NoConfig /\ Truthy(config.url) /\ Truthy(config.apiKey)) =>
        /\ Constructed
        /\ client.url = SubSeq(config.url.val, 1,
               Len(config.url.val) - (IF EndsWithSlash(config.url.val) THEN 1 ELSE 0))
        /\ ~EndsWithSlash(config.url.val) =>
               StoredBaseOf(config, config.url.val \o <<"/">>) = client.url

C3_Witness ==
    /\ Constructed
    /\ config.url = Str(<<"/", "/">>)
    /\ client.url = <<"/">>

\* C4: the url handed to the transport is the stored base followed by the
\* endpoint, and the stored base does not end with a slash, so that the join
\* has no double slash.
C4_NoDoubleSlash ==
    \A c \in Calls :
        calls[c].req # NoReq =>
            LET endpoint == IF calls[c].inv.op = "uploadFile" THEN PathFiles
                            ELSE requestArgs(calls[c].inv).endpoint
            IN  /\ calls[c].req.url = client.url \o endpoint
                /\ ~EndsWithSlash(client.url)

\* C5: the stored timeout is 30000 when the configuration has no timeout, and
\* the supplied number otherwise, 0 included.
C5_Timeout ==
    Constructed =>
        client.timeout = IF config.timeout = Undefined THEN 30000
                         ELSE config.timeout.val

C5_Witness ==
    /\ Constructed
    /\ config.timeout = Num(0)
    /\ client.timeout = 0

---------------------------------------------------------------------------
(* getModels: C6, C7 *)

\* the call has ended and its body promise was the last one to settle
BodyDelivered(c) ==
    /\ calls[c].pc = "done"
    /\ calls[c].resp # NoResp
    /\ calls[c].rejected = NoError

\* the bare array, the object that wraps it, and the sequence both carry
ModelListings ==
    {[bare |-> TxtModels12, wrapped |-> TxtDataModels12, models |-> <<Model1, Model2>>],
     [bare |-> TxtModels21, wrapped |-> TxtDataModels21, models |-> <<Model2, Model1>>],
     [bare |-> TxtEmptyArray, wrapped |-> TxtDataEmptyArray, models |-> <<>>]}

\* C6: on a successful JSON response getModels returns the sequence S, in its
\* order, when the body is the array S and when it is the object {data: S}.
C6_SameSequence ==
    \A c \in Calls : \A l \in ModelListings :
        (/\ BodyDelivered(c)
         /\ calls[c].inv.op = "getModels"
         /\ Ok(calls[c].resp)
         /\ calls[c].reads = <<"json">>
         /\ calls[c].resp.body \in {l.bare, l.wrapped})
        => calls[c].outcome = Returned(Arr(l.models))

C6_Witness ==
    \E c \in Calls :
        /\ BodyDelivered(c)
        /\ calls[c].inv.op = "getModels"
        /\ calls[c].resp.body = TxtDataModels21
        /\ calls[c].outcome = Returned(Arr(<<Model2, Model1>>))

\* the value request returned to getModels
Decoded(c) == BodyRead(calls[c].resp, calls[c].reads[1])

IsModelList(v) ==
    \/ v.tag = "array"
    \/ v.tag = "object" /\ "data" \in DOMAIN v.props /\ v.props["data"].tag = "array"

FormatError ==
    Threw(Error("Error", [fmt |-> "Unexpected response format from /api/models"]))

\* C7: getModels returns arrays only; a successful response whose decoded value
\* is neither an array nor an object with an array in data makes it throw
\* 'Unexpected response format from /api/models'.
C7_FormatError ==
    \A c \in Calls :
        (calls[c].pc = "done" /\ calls[c].inv.op = "getModels") =>
            /\ calls[c].outcome.kind = "returned" => calls[c].outcome.value.tag = "array"
            /\ (BodyDelivered(c) /\ Ok(calls[c].resp) /\ ~Decoded(c).threw
                    /\ ~IsModelList(Decoded(c).value))
               => calls[c].outcome = FormatError

C7_Witness ==
    \E c \in Calls :
        /\ BodyDelivered(c)
        /\ calls[c].inv.op = "getModels"
        /\ Ok(calls[c].resp)
        /\ calls[c].reads = <<"json">>
        /\ calls[c].resp.body = TxtDataString
        /\ calls[c].outcome = FormatError

---------------------------------------------------------------------------
(* Error classification: C8 - C10 *)

\* C8: a response with a non-success status has its body read as text and never
\* decoded as JSON, whatever its content-type; the call returns no value, and
\* with the body text read it throws 'HTTP <status>: <body text>'.
C8_HttpError ==
    \A c \in Calls :
        (calls[c].resp # NoResp /\ ~Ok(calls[c].resp)) =>
            /\ calls[c].reads = <<"text">>
            /\ calls[c].outcome.kind # "returned"
            /\ BodyDelivered(c) =>
                   calls[c].outcome =
                       Threw(Error("Error",
                           HttpMessage(calls[c].resp.status, calls[c].resp.body)))

C8_Witness ==
    \E c \in Calls :
        /\ BodyDelivered(c)
        /\ calls[c].inv.op = "getModels"
        /\ calls[c].resp.status = 401
        /\ calls[c].resp.contentType = Str(<<"application/json">>)
        /\ calls[c].resp.body = TxtFile
        /\ calls[c].outcome = Threw(Error("Error", HttpMessage(401, TxtFile)))

\* the timeout the configuration asks for
ConfiguredTimeout == IF config.timeout = Undefined THEN 30000 ELSE config.timeout.val

\* C9: a call cancelled by its timer throws 'Request timeout after <timeout>ms'
\* with the timeout of the client's configuration, whether the transport names
\* the cancellation TimeoutError or AbortError.
C9_TimeoutMessage ==
    \A c \in Calls :
        (calls[c].firedAt \in Pending /\ calls[c].rejected.name \in AbortNames) =>
            calls[c].outcome = Threw(Error("Error", TimeoutMessage(ConfiguredTimeout)))

C9_Witness ==
    \E c \in Calls :
        /\ calls[c].firedAt = "fetching"
        /\ calls[c].rejected.name = "AbortError"
        /\ config.timeout = Num(5000)
        /\ calls[c].outcome = Threw(Error("Error", TimeoutMessage(5000)))

IsTimeout(outcome) ==
    /\ outcome.kind = "threw"
    /\ outcome.error.message.fmt = "Request timeout after ${this.timeout}ms"

\* C10: when the timer fires while the call waits for the response or reads a
\* body, of a success or of a non-success response, the call ends at once with
\* the timeout error; the outcome of a call that has ended never changes, so a
\* timer that fires later has no effect.
C10_HardBound ==
    [][\A c \in Calls :
          /\ (calls[c].pc \in Pending /\ calls[c].timer = "armed"
                  /\ calls'[c].timer = "fired")
             => calls'[c].pc = "done" /\ IsTimeout(calls'[c].outcome)
          /\ calls[c].pc = "done" =>
                 calls'[c].pc = "done" /\ calls'[c].outcome = calls[c].outcome]_vars

C10_Witness ==
    \E c \in Calls :
        /\ calls[c].inv.op = "uploadFile"
        /\ calls[c].firedAt = "text"
        /\ calls[c].resp.status = 401
        /\ IsTimeout(calls[c].outcome)

---------------------------------------------------------------------------
(* Failures of the transport: C11, C12 *)

\* C11: a rejection of the transport that is an Error and no cancellation
\* reaches the caller as the same error, with its name and its message.
C11_RethrownAsIs ==
    \A c \in Calls :
        (/\ calls[c].rejected # NoError
         /\ IsError(calls[c].rejected)
         /\ calls[c].rejected.name \notin {"TimeoutError", "AbortError"})
        => calls[c].outcome = Threw(calls[c].rejected)

C11_Witness ==
    \E c \in Calls :
        /\ calls[c].inv.op = "getModels"
        /\ calls[c].resp # NoResp
        /\ calls[c].rejected = Error("TypeError", [fmt |-> "fetch failed"])
        /\ calls[c].outcome = Threw(Error("TypeError", [fmt |-> "fetch failed"]))

\* C12: a rejection of the transport with a value that is no Error makes the
\* call throw a new Error 'Unknown error occurred', not the rejected value.
C12_UnknownError ==
    \A c \in Calls :
        (calls[c].rejected # NoError /\ calls[c].rejected.tag # "Error") =>
            /\ calls[c].outcome = Threw(Error("Error", [fmt |-> "Unknown error occurred"]))
            /\ calls[c].outcome.error # calls[c].rejected

C12_Witness ==
    \E c \in Calls :
        /\ calls[c].inv.op = "uploadFile"
        /\ calls[c].rejected = Str(<<"Unknown error">>)
        /\ calls[c].outcome = Threw(Error("Error", [fmt |-> "Unknown error occurred"]))

---------------------------------------------------------------------------
(* The request that is sent: C13 - C19 *)

\* the operations that go through request
RequestOps ==
    {"getModels", "createChatCompletion", "addFileToKnowledge", "ollamaGenerate",
     "ollamaListModels", "ollamaEmbed", "customRequest"}

\* the method, the body and the headers the caller of the operation asks for
AskedMethod(inv) ==
    CASE inv.op \in {"getModels", "ollamaListModels"} -> Undefined
      [] inv.op = "customRequest" -> inv.options.method
      [] OTHER -> Str(<<"POST">>)

AskedBody(inv) ==
    CASE inv.op \in {"getModels", "ollamaListModels"} -> Undefined
      [] inv.op = "customRequest" -> inv.options.body
      [] inv.op = "addFileToKnowledge" -> Obj([file_id |-> Str(inv.fileId)])
      [] OTHER -> inv.payload

AskedHeaders(inv) ==
    IF inv.op = "customRequest" /\ inv.options.headers.tag = "object"
    THEN inv.options.headers.props
    ELSE <<>>

IsGet(inv) == AskedMethod(inv) \in {Undefined, Str(<<"GET">>)}

\* C13: a request whose method is GET, given or by default, is handed to the
\* transport without a body, whatever body the caller supplied.
C13_GetWithoutBody ==
    \A c \in Calls :
        (calls[c].inv.op \in RequestOps /\ IsGet(calls[c].inv)) =>
            /\ calls[c].req # NoReq
            /\ calls[c].req.method = <<"GET">>
            /\ calls[c].req.body = Undefined

C13_Witness ==
    \E c \in Calls :
        /\ calls[c].inv.op = "customRequest"
        /\ calls[c].inv.options.method = Undefined
        /\ calls[c].inv.options.body = UploadedFile1
        /\ calls[c].req # NoReq
        /\ calls[c].req.body = Undefined

\* the call sends a body: the method is not GET and the payload can be serialized
SendsPayload(inv) ==
    /\ inv.op \in RequestOps
    /\ ~IsGet(inv)
    /\ AskedBody(inv).tag \in {"object", "array"}

\* C14: the body handed to the transport by createChatCompletion, ollamaGenerate,
\* ollamaEmbed, addFileToKnowledge and a customRequest that is no GET is JSON text
\* that decodes to the caller's payload, field by field; the files of a chat
\* payload are in it unchanged.
C14_BodyRoundTrip ==
    \A c \in Calls :
        SendsPayload(calls[c].inv) =>
            /\ calls[c].req # NoReq
            /\ calls[c].req.body.tag = "string"
            /\ JSONparse(calls[c].req.body.val) =
                   [threw |-> FALSE, value |-> AskedBody(calls[c].inv)]
            /\ calls[c].inv.op = "createChatCompletion" =>
                   /\ "files" \in DOMAIN JSONparse(calls[c].req.body.val).value.props
                   /\ JSONparse(calls[c].req.body.val).value.props.files =
                          calls[c].inv.payload.props.files

C14_Witness ==
    \E c \in Calls :
        /\ calls[c].inv = InvChat(ChatPayload)
        /\ calls[c].req # NoReq
        /\ calls[c].req.body = Str(TxtChatPayload)
        /\ JSONparse(calls[c].req.body.val).value.props.files =
               Arr(<<Obj([id |-> Str(<<"f1">>)])>>)

\* the content-type header names JSON
IndicatesJson(contentType) ==
    /\ contentType.tag = "string"
    /\ \E i \in 1..Len(contentType.val) : contentType.val[i] = "application/json"

\* C15: on a success status request decodes the body as JSON exactly when the
\* content-type names application/json; with another content-type or none it
\* returns the body text as it is, JSON-like or not.
C15_ParseIffJson ==
    \A c \in Calls :
        (calls[c].inv.op \in RequestOps /\ calls[c].resp # NoResp /\ Ok(calls[c].resp)) =>
            LET json == IndicatesJson(calls[c].resp.contentType)
                parsed == JSONparse(calls[c].resp.body)
            IN  /\ calls[c].reads = <<IF json THEN "json" ELSE "text">>
                /\ (BodyDelivered(c) /\ calls[c].inv.op # "getModels") =>
                       calls[c].outcome =
                           IF ~json THEN Returned(Str(calls[c].resp.body))
                           ELSE IF parsed.threw THEN Threw(parsed.error)
                           ELSE Returned(parsed.value)

C15_Witness ==
    \E c \in Calls :
        /\ BodyDelivered(c)
        /\ calls[c].inv.op = "customRequest"
        /\ calls[c].resp.status = 200
        /\ calls[c].resp.contentType = Str(<<"text/plain">>)
        /\ calls[c].resp.body = TxtModels12
        /\ calls[c].outcome = Returned(Str(TxtModels12))

\* the two default headers of request for the configured credential
DefaultHeaderValue(key) ==
    IF key = "Authorization" THEN <<"Bearer ">> \o config.apiKey.val
    ELSE <<"application/json">>

\* C16: the headers of a request are Authorization and Content-Type with their
\* defaults, and the caller's headers: the caller's value for every key the
\* caller gave, the default for a default key the caller did not give.
C16_HeaderMerge ==
    \A c \in Calls :
        (calls[c].inv.op \in RequestOps /\ calls[c].req # NoReq) =>
            LET asked == AskedHeaders(calls[c].inv)
                sent == calls[c].req.headers
            IN  /\ DOMAIN sent = {"Authorization", "Content-Type"} \cup DOMAIN asked
                /\ \A k \in DOMAIN asked : sent[k] = asked[k]
                /\ \A k \in {"Authorization", "Content-Type"} \ DOMAIN asked :
                       sent[k] = DefaultHeaderValue(k)

C16_Witness ==
    \E c \in Calls :
        /\ calls[c].inv.op = "customRequest"
        /\ calls[c].inv.options.headers = OwnAuthorization
        /\ calls[c].req # NoReq
        /\ calls[c].req.headers["Authorization"] = <<"Basic ", "u:p">>
        /\ calls[c].req.headers["X-Trace"] = <<"1">>
        /\ calls[c].req.headers["Content-Type"] = <<"application/json">>

\* C17: every request handed to the transport has an Authorization header; its
\* value is 'Bearer <configured credential>' unless the caller of customRequest
\* gave an Authorization header; no fetch happens without it.
C17_Authorization ==
    \A c \in Calls :
        /\ calls[c].fetches > 0 => calls[c].req # NoReq
        /\ calls[c].req # NoReq =>
               /\ "Authorization" \in DOMAIN calls[c].req.headers
               /\ "Authorization" \notin DOMAIN AskedHeaders(calls[c].inv) =>
                      calls[c].req.headers["Authorization"] =
                          <<"Bearer ">> \o config.apiKey.val

C17_Witness ==
    \E c \in Calls :
        /\ calls[c].inv.op = "uploadFile"
        /\ calls[c].fetches = 1
        /\ calls[c].req.headers["Authorization"] = <<"Bearer ", "k">>

\* C18: uploadFile sends POST <base>/api/v1/files/ with a form of one part
\* named 'file' that holds the given file, and with the headers Authorization
\* and Accept: application/json and no other, so no Content-Type.
C18_UploadRequest ==
    \A c \in Calls :
        (calls[c].inv.op = "uploadFile" /\ calls[c].req # NoReq) =>
            /\ calls[c].req.method = <<"POST">>
            /\ calls[c].req.url = client.url \o <<"/", "api", "/", "v1", "/", "files", "/">>
            /\ calls[c].req.body.tag = "FormData"
            /\ Len(calls[c].req.body.parts) = 1
            /\ calls[c].req.body.parts[1] = [name |-> "file", value |-> calls[c].inv.file]
            /\ DOMAIN calls[c].req.headers = {"Authorization", "Accept"}
            /\ calls[c].req.headers["Accept"] = <<"application/json">>
            /\ calls[c].req.headers["Authorization"] = <<"Bearer ">> \o config.apiKey.val

C18_Witness ==
    \E c \in Calls :
        /\ calls[c].inv = InvUpload(Blob)
        /\ calls[c].pc = "fetching"
        /\ calls[c].req.url = <<"h", "/", "api", "/", "v1", "/", "files", "/">>
        /\ "Content-Type" \notin DOMAIN calls[c].req.headers

\* C19: a request that is no GET and whose body is cyclic ends with the
\* TypeError of JSON.stringify, and fetch is not called for it.
C19_SerializationError ==
    \A c \in Calls :
        (/\ calls[c].inv.op \in RequestOps
         /\ ~IsGet(calls[c].inv)
         /\ AskedBody(calls[c].inv).tag = "cyclic")
        => /\ calls[c].pc = "done"
           /\ calls[c].outcome.kind = "threw"
           /\ calls[c].outcome.error.name = "TypeError"
           /\ calls[c].outcome.error.message.fmt = "Converting circular structure to JSON"
           /\ calls[c].fetches = 0
           /\ calls[c].req = NoReq

C19_Witness ==
    \E c \in Calls :
        /\ calls[c].inv = InvChat(Cyclic)
        /\ calls[c].pc = "done"
        /\ calls[c].outcome.error.name = "TypeError"
        /\ calls[c].fetches = 0

---------------------------------------------------------------------------
(* uploadFile with a path: C20 *)

\* C20: uploadFile with an input that is neither a File nor a Blob throws the
\* 'not yet implemented' error and calls fetch not at all.
C20_PathUpload ==
    \A c \in Calls :
        (calls[c].inv.op = "uploadFile" /\ calls[c].inv.file.tag # "Blob") =>
            /\ calls[c].pc = "done"
            /\ calls[c].outcome =
                   Threw(Error("Error",
                       [fmt |-> "File path upload not yet implemented. Please use File or Blob objects."]))
            /\ calls[c].fetches = 0
            /\ calls[c].req = NoReq

C20_Witness ==
    \E c \in Calls :
        /\ calls[c].inv.op = "uploadFile"
        /\ calls[c].inv.file.tag = "path"
        /\ calls[c].pc = "done"
        /\ calls[c].outcome.kind = "threw"
        /\ calls[c].fetches = 0

---------------------------------------------------------------------------
(* uploadFile and request side by side: C21 *)

\* what the transport did to a call that has ended in a failure of the transport
\* or of the status: the category, and what the category carries
TransportOutcome(c) ==
    IF calls[c].rejected # NoError
    THEN IF ~IsError(calls[c].rejected) THEN [cat |-> "non-Error"]
         ELSE IF calls[c].rejected.name \in {"TimeoutError", "AbortError"}
         THEN [cat |-> "cancelled"]
         ELSE [cat |-> "Error", error |-> calls[c].rejected]
    ELSE IF BodyDelivered(c) /\ ~Ok(calls[c].resp)
    THEN [cat |-> "status", status |-> calls[c].resp.status, text |-> calls[c].resp.body]
    ELSE [cat |-> "other"]

\* C21: an uploadFile call and a call through request that met the same
\* outcome of the transport (a non-success status with the same body text, a
\* cancellation under either name, the same Error, a value that is no Error)
\* end with the same error: the same name and the same message.
C21_SameClassification ==
    \A c, d \in Calls :
        (/\ calls[c].inv.op = "uploadFile"
         /\ calls[d].inv.op \in RequestOps
         /\ TransportOutcome(c).cat # "other"
         /\ TransportOutcome(c) = TransportOutcome(d))
        => /\ calls[c].outcome.kind = "threw"
           /\ calls[c].outcome = calls[d].outcome

C21_Witness ==
    \E c, d \in Calls :
        /\ calls[c].inv.op = "uploadFile"
        /\ calls[d].inv.op = "getModels"
        /\ calls[c].rejected = Error("TimeoutError", [fmt |-> "The operation was aborted"])
        /\ calls[d].rejected = Error("AbortError", [fmt |-> "The operation was aborted"])
        /\ calls[c].outcome = calls[d].outcome
        /\ IsTimeout(calls[c].outcome)

---------------------------------------------------------------------------
(* One attempt per call: C22 *)

\* the call has ended in an error after fetch was called for it
FailedAfterFetch(c) ==
    /\ calls[c].pc = "done"
    /\ calls[c].outcome.kind = "threw"
    /\ calls[c].req # NoReq

\* C22: no operation calls fetch more than once for one invocation; a call
\* that failed after its fetch (status, timeout, transport, format) has called
\* fetch exactly once, and a call that has ended is not resumed.
C22_NoRetry ==
    \A c \in Calls :
        /\ calls[c].fetches <= 1
        /\ FailedAfterFetch(c) => calls[c].fetches = 1
        /\ (calls[c].rejected # NoError \/ calls[c].firedAt \in Pending) =>
               calls[c].pc = "done" /\ calls[c].outcome.kind = "threw"

C22_Witness ==
    \E c \in Calls :
        /\ calls[c].inv.op = "getModels"
        /\ calls[c].pc = "done"
        /\ calls[c].rejected = Error("TypeError", [fmt |-> "fetch failed"])
        /\ calls[c].outcome.kind = "threw"
        /\ calls[c].fetches = 1

---------------------------------------------------------------------------
(* Several calls in flight: C23 *)

\* the outcome of a call that has ended, from what the transport did to this
\* call alone: its own request, its own response, its own rejection
AloneOutcome(c) ==
    LET inv == calls[c].inv
        upload == inv.op = "uploadFile"
        rej == calls[c].rejected
        resp == calls[c].resp
    IN  IF calls[c].req = NoReq
        THEN IF upload THEN Threw(NotImplemented)
             ELSE Threw(Error("TypeError", [fmt |-> "Converting circular structure to JSON"]))
        ELSE IF rej # NoError
        THEN IF ~IsError(rej) THEN Threw(Error("Error", [fmt |-> "Unknown error occurred"]))
             ELSE IF rej.name \in AbortNames
             THEN Threw(Error("Error", TimeoutMessage(ConfiguredTimeout)))
             ELSE Threw(rej)
        ELSE IF ~Ok(resp)
        THEN Threw(Error("Error", HttpMessage(resp.status, resp.body)))
        ELSE LET read == IF ~upload /\ ~IndicatesJson(resp.contentType)
                         THEN [threw |-> FALSE, value |-> Str(resp.body)]
                         ELSE JSONparse(resp.body)
             IN  IF read.threw THEN Threw(read.error)
                 ELSE IF inv.op # "getModels" THEN Returned(read.value)
                 ELSE IF ~IsModelList(read.value) THEN FormatError
                 ELSE IF read.value.tag = "array" THEN Returned(read.value)
                 ELSE Returned(read.value.props["data"])

\* C23: every call has a timer of its own. A step in which the timer of one
\* call fires changes that call only; a call is cancelled only by its own
\* timer; and the outcome of every call that has ended is the one its own
\* request, response and rejection give, whatever the other calls did.
C23_OwnTimer ==
    [][\A c \in Calls :
          /\ (calls[c].timer = "armed" /\ calls'[c].timer = "fired") =>
                 \A d \in Calls \ {c} : calls'[d] = calls[d]
          /\ (calls'[c].pc = "done" /\ IsTimeout(calls'[c].outcome)) =>
                 calls'[c].firedAt \in Pending
          /\ calls'[c].pc = "done" => calls'[c].outcome = AloneOutcome(c)']_vars

C23_Witness ==
    \E c, d \in Calls :
        /\ c # d
        /\ calls[c].firedAt = "fetching"
        /\ IsTimeout(calls[c].outcome)
        /\ calls[d].pc = "done"
        /\ calls[d].timer = "armed"
        /\ calls[d].outcome = Returned(Arr(<<Model1, Model2>>))

---------------------------------------------------------------------------
(* The client between calls: C24 *)

\* the endpoint of the operation
EndpointOf(inv) ==
    CASE inv.op = "getModels" -> <<"/", "api", "/", "models">>
      [] inv.op = "uploadFile" -> <<"/", "api", "/", "v1", "/", "files", "/">>

\* the base URL construction stored for the configuration
BaseAtConstruction ==
    SubSeq(config.url.val, 1,
        Len(config.url.val) - (IF EndsWithSlash(config.url.val) THEN 1 ELSE 0))

\* C24: while calls start, run and end, in any order and with any outcome, the
\* client's base URL, credential and timeout are the ones construction stored;
\* the request of every call is made of them and of the call's own arguments.
C24_Stateless ==
    /\ client.url = BaseAtConstruction
    /\ client.apiKey = config.apiKey.val
    /\ client.timeout = ConfiguredTimeout
    /\ \A c \in Calls :
           calls[c].req # NoReq =>
               /\ calls[c].req.url = BaseAtConstruction \o EndpointOf(calls[c].inv)
               /\ calls[c].req.headers["Authorization"] =
                      <<"Bearer ">> \o config.apiKey.val
               /\ calls[c].req.signal = ConfiguredTimeout

C24_Witness ==
    \E c, d \in Calls :
        /\ c # d
        /\ calls[c].pc = "done"
        /\ calls[c].outcome.kind = "threw"
        /\ calls[d].pc = "done"
        /\ calls[d].outcome.kind = "returned"
        /\ calls[d].inv.op = "uploadFile"
        /\ calls[d].req.url = <<"h", "/", "api", "/", "v1", "/", "files", "/">>
        /\ client.url = <<"h">>

---------------------------------------------------------------------------
(* Every failure reaches the caller: C25 *)

\* the kind of failure the caller reads off the error it caught: from the
\* error's name and message, nothing else
KindOfError(e) ==
    CASE e.message.fmt \in {"URL is required", "API key is required"} -> "configuration"
      [] e.message.fmt = "Request timeout after ${this.timeout}ms" -> "timeout"
      [] e.message.fmt = "HTTP ${response.status}: ${errorText}" -> "HTTP"
      [] e.message.fmt = "Unexpected response format from /api/models" -> "format"
      [] e.name = "SyntaxError" -> "format"
      [] e.message.fmt =
           "File path upload not yet implemented. Please use File or Blob objects." ->
             "unsupported input"
      [] e.message.fmt = "Converting circular structure to JSON" -> "unsupported input"
      [] OTHER -> "transport"

\* what went wrong in the call, from what happened to it: "none" when nothing did
CauseOfFailure(c) ==
    LET resp == calls[c].resp
        read == BodyRead(resp, calls[c].reads[1])
    IN  IF calls[c].req = NoReq THEN "unsupported input"
        ELSE IF calls[c].firedAt \in Pending THEN "timeout"
        ELSE IF calls[c].rejected # NoError THEN "transport"
        ELSE IF ~Ok(resp) THEN "HTTP"
        ELSE IF read.threw THEN "format"
        ELSE IF calls[c].inv.op = "getModels" /\ ~IsModelList(read.value) THEN "format"
        ELSE "none"

\* C25: a constructor that fails throws a configuration error. A call has no
\* outcome before it ends and one outcome when it has ended: a returned value
\* when nothing went wrong, and otherwise an error whose name and message tell
\* the kind of what went wrong: timeout, HTTP, format, transport or unsupported
\* input.
C25_NoErrorSwallowed ==
    /\ (config # NoConfig /\ client = NoClient) =>
           ctorError # NoError /\ KindOfError(ctorError) = "configuration"
    /\ \A c \in Calls :
           /\ calls[c].pc # "done" => calls[c].outcome = NoOutcome
           /\ calls[c].pc = "done" =>
                  /\ calls[c].outcome.kind \in {"returned", "threw"}
                  /\ calls[c].outcome.kind = "returned" <=> CauseOfFailure(c) = "none"
                  /\ calls[c].outcome.kind = "threw" =>
                         /\ KindOfError(calls[c].outcome.error) = CauseOfFailure(c)
                         /\ KindOfError(calls[c].outcome.error) # "configuration"

C25_Witness ==
    \E c \in Calls :
        /\ calls[c].inv.op = "getModels"
        /\ calls[c].pc = "done"
        /\ calls[c].resp # NoResp
        /\ calls[c].resp.status = 200
        /\ calls[c].resp.body = TxtUnexpected
        /\ calls[c].rejected = NoError
        /\ calls[c].outcome = FormatError

---------------------------------------------------------------------------
(* The endpoints of the operations: C26 *)

\* the rows of the interface table: the method, the path after the base URL and
\* the body text of the operation
TableRow(inv) ==
    CASE inv.op = "getModels" ->
            [method |-> <<"GET">>, path |-> <<"/", "api", "/", "models">>, body |-> Undefined]
      [] inv.op = "createChatCompletion" ->
            [method |-> <<"POST">>, path |-> <<"/", "api", "/", "chat", "/", "completions">>,
             body |-> Str(TxtChatPayload)]
      [] inv.op = "addFileToKnowledge" ->
            [method |-> <<"POST">>,
             path |-> <<"/", "api", "/", "v1", "/", "knowledge", "/">> \o inv.knowledgeId
                        \o <<"/", "file", "/", "add">>,
             body |-> Str(<<"{\"file_id\":\"f1\"}">>)]
      [] inv.op = "ollamaGenerate" ->
            [method |-> <<"POST">>, path |-> <<"/", "ollama", "/", "api", "/", "generate">>,
             body |-> Str(TxtGeneratePayload)]
      [] inv.op = "ollamaEmbed" ->
            [method |-> <<"POST">>, path |-> <<"/", "ollama", "/", "api", "/", "embed">>,
             body |-> Str(TxtEmbedPayload)]
      [] inv.op = "ollamaListModels" ->
            [method |-> <<"GET">>, path |-> <<"/", "ollama", "/", "api", "/", "tags">>,
             body |-> Undefined]

TableOps ==
    {"getModels", "createChatCompletion", "addFileToKnowledge", "ollamaGenerate",
     "ollamaEmbed", "ollamaListModels"}

ProxyOps == {"ollamaGenerate", "ollamaEmbed", "ollamaListModels"}

\* C26: the request of getModels, createChatCompletion, addFileToKnowledge,
\* ollamaGenerate, ollamaEmbed and ollamaListModels has the method and the path
\* of its row of the interface table, the body of addFileToKnowledge is
\* {file_id}, and a proxy operation differs from the others in its path and its
\* body only: the default headers, the client's timeout, and the outcome the
\* executor gives for the response or the rejection.
C26_InterfaceTable ==
    \A c \in Calls :
        (calls[c].inv.op \in TableOps /\ calls[c].req # NoReq) =>
            /\ calls[c].req.method = TableRow(calls[c].inv).method
            /\ calls[c].req.url = BaseAtConstruction \o TableRow(calls[c].inv).path
            /\ calls[c].req.body = TableRow(calls[c].inv).body
            /\ calls[c].inv.op \in ProxyOps =>
                   /\ calls[c].req.headers =
                          ("Authorization" :> (<<"Bearer ">> \o config.apiKey.val))
                            @@ ("Content-Type" :> <<"application/json">>)
                   /\ calls[c].req.signal = ConfiguredTimeout
                   /\ calls[c].pc = "done" => calls[c].outcome = AloneOutcome(c)

C26_Witness ==
    \E c \in Calls :
        /\ calls[c].inv = InvAddFile(<<"k2">>, <<"f1">>)
        /\ calls[c].req # NoReq
        /\ calls[c].req.method = <<"POST">>
        /\ calls[c].req.url =
               <<"h", "/", "api", "/", "v1", "/", "knowledge", "/", "k2", "/", "file", "/", "add">>
        /\ calls[c].req.body = Str(<<"{\"file_id\":\"f1\"}">>)

---------------------------------------------------------------------------
(* The conversation and account operations: C27 *)

\* the rows of the interface table for the conversation and account operations,
\* under the names the quick start guide gives them
ConversationRow(inv) ==
    CASE inv.op = "getChatHistory" ->
            [method |-> <<"GET">>, path |-> <<"/", "api", "/", "chats">>]
      [] inv.op = "getChat" ->
            [method |-> <<"GET">>, path |-> <<"/", "api", "/", "chats", "/">> \o inv.chatId]
      [] inv.op = "createConversation" ->
            [method |-> <<"POST">>, path |-> <<"/", "api", "/", "chats">>]
      [] inv.op = "updateChat" ->
            [method |-> <<"PATCH">>, path |-> <<"/", "api", "/", "chats", "/">> \o inv.chatId]
      [] inv.op = "deleteChat" ->
            [method |-> <<"DELETE">>, path |-> <<"/", "api", "/", "chats", "/">> \o inv.chatId]
      [] inv.op = "getUserInfo" ->
            [method |-> <<"GET">>, path |-> <<"/", "api", "/", "users", "/", "me">>]
      [] inv.op = "healthCheck" -> [method |-> <<"GET">>, path |-> <<"/", "health">>]
      [] inv.op = "getFunctions" ->
            [method |-> <<"GET">>, path |-> <<"/", "api", "/", "functions">>]

ConversationOps ==
    {"getChatHistory", "getChat", "createConversation", "updateChat", "deleteChat",
     "getUserInfo", "healthCheck", "getFunctions"}

\* C27: a call of a conversation or account operation (list, get, create,
\* update, delete conversation, user info, health, functions list) hands the
\* executor a request with the method and the path of its row of the interface
\* table.
C27_ConversationOperations ==
    \A c \in Calls :
        calls[c].inv.op \in ConversationOps =>
            /\ calls[c].req # NoReq
            /\ calls[c].fetches = 1
            /\ calls[c].req.method = ConversationRow(calls[c].inv).method
            /\ calls[c].req.url = BaseAtConstruction \o ConversationRow(calls[c].inv).path

---------------------------------------------------------------------------
(* Bodies that are falsy: C28 *)

\* null, undefined, 0, false and the empty string
IsFalsy(v) ==
    \/ v.tag \in {"undefined", "null"}
    \/ v.tag = "number" /\ v.val = 0
    \/ v.tag = "boolean" /\ v.val = FALSE
    \/ v.tag = "string" /\ Len(v.val) = 0

\* C28: the request handed to the transport has a body exactly when its method
\* is not GET and the body the caller gave is not falsy; a request that is no GET
\* with no body or with null, 0, false or '' is handed over without a body and
\* with the default header Content-Type: application/json.
C28_BodyIffTruthy ==
    \A c \in Calls :
        calls[c].inv.op \in RequestOps =>
            /\ calls[c].req # NoReq =>
                   (calls[c].req.body # Undefined
                        <=> (~IsGet(calls[c].inv) /\ ~IsFalsy(AskedBody(calls[c].inv))))
            /\ (~IsGet(calls[c].inv) /\ IsFalsy(AskedBody(calls[c].inv))) =>
                   /\ calls[c].req # NoReq
                   /\ calls[c].fetches = 1
                   /\ calls[c].req.body = Undefined
                   /\ "Content-Type" \in DOMAIN calls[c].req.headers
                   /\ calls[c].req.headers["Content-Type"] = <<"application/json">>

C28_Witness ==
    \E c \in Calls :
        /\ calls[c].inv.op = "customRequest"
        /\ calls[c].inv.options.method = Str(<<"POST">>)
        /\ calls[c].inv.options.body = Num(0)
        /\ calls[c].req # NoReq
        /\ calls[c].req.method = <<"POST">>
        /\ calls[c].req.body = Undefined
        /\ calls[c].req.headers["Content-Type"] = <<"application/json">>

---------------------------------------------------------------------------
(* The body of a successful upload: C29 *)

\* C29: on a success status uploadFile decodes the body with json() whatever
\* the content-type is, where request reads text for a content-type that is
\* not JSON; a body that is no JSON text makes uploadFile throw the SyntaxError
\* of the decoding, and a body that is JSON text is returned decoded.
C29_UploadAlwaysJson ==
    \A c \in Calls :
        (calls[c].resp # NoResp /\ Ok(calls[c].resp)) =>
            /\ calls[c].inv.op = "uploadFile" =>
                   /\ calls[c].reads = <<"json">>
                   /\ BodyDelivered(c) =>
                          calls[c].outcome =
                              IF JSONparse(calls[c].resp.body).threw
                              THEN Threw(Error("SyntaxError",
                                             [fmt |-> "Unexpected token in JSON"]))
                              ELSE Returned(JSONparse(calls[c].resp.body).value)
            /\ (calls[c].inv.op \in RequestOps
                    /\ ~IndicatesJson(calls[c].resp.contentType)) =>
                   calls[c].reads = <<"text">>

C29_Witness ==
    \E c \in Calls :
        /\ calls[c].inv.op = "uploadFile"
        /\ BodyDelivered(c)
        /\ calls[c].resp.status = 200
        /\ calls[c].resp.contentType = Str(<<"text/plain">>)
        /\ calls[c].resp.body = TxtUnauthorized
        /\ calls[c].outcome.kind = "threw"
        /\ calls[c].outcome.error.name = "SyntaxError"

---------------------------------------------------------------------------
(* The order of the steps of a call: C30 *)

\* C30 as stated: no body method is invoked before fetch has resolved; for a
\* response that has arrived exactly one body method is invoked, decided by the
\* status first: text() for a non-success status and for a success status with
\* a content-type that is not JSON, json() for a success status with a JSON
\* content-type.
C30_ReadByContentType ==
    \A c \in Calls :
        /\ calls[c].resp = NoResp => calls[c].reads = <<>> /\ calls[c].pc \notin {"text", "json"}
        /\ calls[c].resp # NoResp =>
               calls[c].reads =
                   <<IF ~Ok(calls[c].resp) THEN "text"
                     ELSE IF IndicatesJson(calls[c].resp.contentType) THEN "json"
                     ELSE "text">>

\* C30 amended: no body method is invoked before fetch has resolved; for a
\* response that has arrived exactly one body method is invoked, decided by the
\* status first: text() for a non-success status; for a success status, json()
\* in uploadFile, and in request json() for a JSON content-type and text()
\* for any other.
C30_BodyReadOnce ==
    \A c \in Calls :
        /\ calls[c].resp = NoResp => calls[c].reads = <<>> /\ calls[c].pc \notin {"text", "json"}
        /\ calls[c].resp # NoResp =>
               calls[c].reads =
                   <<IF ~Ok(calls[c].resp) THEN "text"
                     ELSE IF calls[c].inv.op = "uploadFile" THEN "json"
                     ELSE IF IndicatesJson(calls[c].resp.contentType) THEN "json"
                     ELSE "text">>

C30_Witness ==
    \E c \in Calls :
        /\ calls[c].inv.op = "uploadFile"
        /\ calls[c].pc = "done"
        /\ calls[c].resp # NoResp
        /\ calls[c].resp.status = 200
        /\ calls[c].resp.contentType = Null
        /\ calls[c].reads = <<"json">>

=============================================================================
